---------------------------- MODULE Spec2Model ----------------------------
(***************************************************************************)
(* The negotiation decision engine of the CollectWise chatbot             *)
(* (lib/assistantLogic, kept here as src/unnamed/part_000): the module    *)
(* state (threadId, assistantId, currentDebtAmount, negotiationStage),    *)
(* the three tool functions evaluateAndNegotiate, suggestPlan and         *)
(* finalizePlan with their shared builder createCounterProposal, the      *)
(* free-text interceptor, and the sendMessage loop that dispatches them.  *)
(*                                                                         *)
(* Numbers are JavaScript doubles in the source.  All amounts, terms and  *)
(* debts of the model are positive integers far below 2^53, so products,  *)
(* differences and the floor/ceil of a quotient are exact; the only       *)
(* inexact operations are the multiplications by 0.08, 0.04, 0.02, 1.1    *)
(* and 1.2, modelled by CeilMul with the rounding error of each constant. *)
(***************************************************************************)
EXTENDS Integers, Sequences, FiniteSets

VARIABLES
    threadId,           \* "null" or "thread": let threadId
    assistantId,        \* "null" or "assistant": let assistantId
    currentDebtAmount,  \* let currentDebtAmount
    negotiationStage,   \* let negotiationStage
    pc,                 \* position of sendMessage: "idle", "polling", "submitted"
    response,           \* sendMessage's local `response`, the ChatMessage it returns
    call,               \* history: the engine call made by the latest step, or NoCall
    callsSinceReset,    \* history: evaluateAndNegotiate/suggestPlan calls since the last reset
    probe               \* input and output of a pure function under ProbeSpec

vars == <<threadId, assistantId, currentDebtAmount, negotiationStage, pc,
          response, call, callsSinceReset, probe>>

---------------------------------------------------------------------------
(* Bounds of the model. *)

MaxStage == 3
MaxAmount == 3
MaxTerm == 3
MaxProbeDebt == 60
MaxProbeTerm == 8

(* Program constants. *)

DefaultDebt == 2400
FallbackTerm == 6
LateStage == 2

---------------------------------------------------------------------------
(* Input domains. *)

Frequencies == {"weekly", "biweekly", "monthly", "daily"}

DebtAmounts == {30, 625, 1200, DefaultDebt}

ConversationDebts == {1200, DefaultDebt}

Amounts == (1..MaxAmount) \cup {25, 50, 200, 240}

TermLengths == (1..MaxTerm) \cup {10, 12, 48}

Messages == {"", "caller message"}

(* Situation texts, as character sequences. *)
TextEmpty == << >>

TextMedical == <<"M", "e", "d", "i", "c", "a", "l", " ", "b", "i", "l", "l", "s">>

TextDifficult == <<"i", "t", " ", "i", "s", " ", "D", "I", "F", "F", "I", "C", "U", "L", "T">>

Situations == {TextEmpty, TextMedical, TextDifficult}

---------------------------------------------------------------------------
(* JavaScript number and string primitives. *)
(* The characters of a string, one single-character string each. *)
Chars(s) == [i \in 1..Len(s) |-> SubSeq(s, i, i)]


CeilDiv(a, b) == (a + b - 1) \div b

FloorDiv(a, b) == a \div b

RECURSIVE Pow2Floor(_)
Pow2Floor(k) == IF k < 2 THEN 1 ELSE 2 * Pow2Floor(k \div 2)

(* Math.ceil(n * c) for the double c nearest to num/den.  The double is    *)
(* num/den + errNum/(errDen * 2^53); when n*num/den is a whole number k    *)
(* the rounded product exceeds k exactly when n*errNum > errDen * 2^p,     *)
(* 2^p the largest power of two not above k (half an ulp of k).            *)
CeilMul(n, c) ==
    LET exact == CeilDiv(n * c.num, c.den)
    IN  IF /\ n > 0
           /\ (n * c.num) % c.den = 0
           /\ n * c.errNum > c.errDen * Pow2Floor((n * c.num) \div c.den)
        THEN exact + 1
        ELSE exact

Rate008 == [num |-> 2, den |-> 25, errNum |-> 3, errDen |-> 200]

Rate004 == [num |-> 1, den |-> 25, errNum |-> 3, errDen |-> 400]

Rate002 == [num |-> 1, den |-> 50, errNum |-> 6, errDen |-> 1600]

Mult125 == [num |-> 5, den |-> 4, errNum |-> 0, errDen |-> 1]

Mult110 == [num |-> 11, den |-> 10, errNum |-> 8, errDen |-> 10]

Mult150 == [num |-> 3, den |-> 2, errNum |-> 0, errDen |-> 1]

Mult120 == [num |-> 6, den |-> 5, errNum |-> -2, errDen |-> 5]

LowerCase ==
    [A |-> "a", B |-> "b", C |-> "c", D |-> "d", E |-> "e", F |-> "f", G |-> "g",
     H |-> "h", I |-> "i", J |-> "j", K |-> "k", L |-> "l", M |-> "m", N |-> "n",
     O |-> "o", P |-> "p", Q |-> "q", R |-> "r", S |-> "s", T |-> "t", U |-> "u",
     V |-> "v", W |-> "w", X |-> "x", Y |-> "y", Z |-> "z"]

LowerOf(ch) == IF ch \in DOMAIN LowerCase THEN LowerCase[ch] ELSE ch

toLowerCase(s) == [i \in 1..Len(s) |-> LowerOf(s[i])]

includes(s, sub) ==
    \E i \in 0..(Len(s) - Len(sub)) :
        \A j \in 1..Len(sub) : s[i + j] = sub[j]

KwHardship == <<"h", "a", "r", "d", "s", "h", "i", "p">>

KwLaidOff == <<"l", "a", "i", "d", " ", "o", "f", "f">>

KwMedical == <<"m", "e", "d", "i", "c", "a", "l">>

KwDifficult == <<"d", "i", "f", "f", "i", "c", "u", "l", "t">>

---------------------------------------------------------------------------
(* ChatMessage values. *)

NoNote == << >>

Msg(text, note) == [text |-> text, note |-> note]

ChatMessage(message, displayType, displayData) ==
    [message |-> message, isBot |-> TRUE,
     displayType |-> displayType, displayData |-> displayData]

PaymentPlan(frequency, amount, termLength, totalAmount) ==
    [frequency |-> frequency, amount |-> amount,
     termLength |-> termLength, totalAmount |-> totalAmount]

EmptyResponse == ChatMessage(Msg("", NoNote), "text", << >>)

NoCall == [fn |-> "none"]

---------------------------------------------------------------------------
(* The engine.  Each function takes the current negotiationStage and       *)
(* returns the ChatMessage together with the stage it leaves behind.       *)

Returned(result, stage) == [result |-> result, negotiationStage |-> stage]

allowedFrequencies == {"weekly", "biweekly", "monthly"}

minRates(frequency) ==
    CASE frequency = "monthly" -> Rate008
      [] frequency = "biweekly" -> Rate004
      [] frequency = "weekly" -> Rate002
      [] OTHER -> Rate008

(* Faulty variant: balances above 50 are charged half the rate. *)
getMinimumPaymentTiered(frequency, debtAmount) ==
    IF debtAmount > 50
    THEN CeilMul(debtAmount, [minRates(frequency) EXCEPT !.den = 2 * @])
    ELSE CeilMul(debtAmount, minRates(frequency))

(* Faulty variant: Math.round in place of Math.ceil. *)
getMinimumPaymentRound(frequency, debtAmount) ==
    (2 * debtAmount * minRates(frequency).num + minRates(frequency).den)
        \div (2 * minRates(frequency).den)

getMinimumPayment(frequency, debtAmount) ==
    CeilMul(debtAmount, minRates(frequency))

(* Faulty variant: the builder forgets negotiationStage++. *)
createCounterProposalNoIncrement(systemMessage, frequency, termLength, totalAmount, userMessage, stage) ==
    LET regularAmount == FloorDiv(totalAmount, termLength)
        finalPayment == totalAmount - (regularAmount * (termLength - 1))
        counter == PaymentPlan(frequency, regularAmount, termLength, totalAmount)
        finalMessage ==
            IF userMessage # "" THEN Msg(userMessage, NoNote)
            ELSE IF regularAmount # finalPayment THEN Msg(systemMessage, <<finalPayment>>)
            ELSE Msg(systemMessage, NoNote)
    IN  Returned(ChatMessage(finalMessage, "paymentPlans", <<counter>>), stage)

(* Faulty variant: Math.ceil in place of Math.floor for the regular amount. *)
createCounterProposalCeil(systemMessage, frequency, termLength, totalAmount, userMessage, stage) ==
    LET regularAmount == CeilDiv(totalAmount, termLength)
        finalPayment == totalAmount - (regularAmount * (termLength - 1))
        counter == PaymentPlan(frequency, regularAmount, termLength, totalAmount)
        finalMessage ==
            IF userMessage # "" THEN Msg(userMessage, NoNote)
            ELSE IF regularAmount # finalPayment THEN Msg(systemMessage, <<finalPayment>>)
            ELSE Msg(systemMessage, NoNote)
    IN  Returned(ChatMessage(finalMessage, "paymentPlans", <<counter>>), stage + 1)

createCounterProposal(systemMessage, frequency, termLength, totalAmount, userMessage, stage) ==
    LET regularAmount == FloorDiv(totalAmount, termLength)
        finalPayment == totalAmount - (regularAmount * (termLength - 1))
        isEqualPayments == regularAmount = finalPayment
        displayAmount == regularAmount
        counter == PaymentPlan(frequency, displayAmount, termLength, totalAmount)
        finalMessage ==
            IF userMessage # "" THEN Msg(userMessage, NoNote)
            ELSE IF ~isEqualPayments THEN Msg(systemMessage, <<finalPayment>>)
            ELSE Msg(systemMessage, NoNote)
    IN  Returned(ChatMessage(finalMessage, "paymentPlans", <<counter>>), stage + 1)

hasHardshipEvaluate(userSituation) ==
    \/ includes(toLowerCase(userSituation), KwHardship)
    \/ includes(toLowerCase(userSituation), KwLaidOff)
    \/ includes(toLowerCase(userSituation), KwMedical)
    \/ includes(toLowerCase(userSituation), KwDifficult)

(* Faulty variant: the floor comparisons read <= so a proposal exactly at the      *)
(* floor is countered.                                                     *)
evaluateAndNegotiateStrictFloor(userProposal, debtAmount, userSituation, resp, stage) ==
    LET amount == userProposal.amount
        frequency == userProposal.frequency
        termLength == userProposal.termLength
        absoluteMinPayment == getMinimumPayment(frequency, debtAmount)
        totalProposed == amount * termLength
        hasHardship == hasHardshipEvaluate(userSituation)
        multiplier == IF hasHardship THEN Mult110 ELSE Mult125
    IN  IF frequency \notin allowedFrequencies THEN
            createCounterProposal("Invalid payment frequency.", "monthly",
                                  FallbackTerm, debtAmount, "", stage)
        ELSE IF totalProposed < debtAmount THEN
            IF amount <= absoluteMinPayment THEN
                createCounterProposal("Here's a suggested plan that works better.",
                    frequency,
                    CeilDiv(debtAmount, CeilMul(absoluteMinPayment, Mult125)),
                    debtAmount, "", stage)
            ELSE
                createCounterProposal("We need to adjust the term to cover the full debt.",
                    frequency, CeilDiv(debtAmount, amount), debtAmount, "", stage)
        ELSE IF amount <= absoluteMinPayment THEN
            createCounterProposal(
                IF hasHardship THEN "We need something a bit higher."
                ELSE "We need to increase the payment amount.",
                frequency,
                CeilDiv(debtAmount, CeilMul(absoluteMinPayment, multiplier)),
                debtAmount, "", stage)
        ELSE IF amount * termLength # debtAmount THEN
            createCounterProposal("Let me adjust the payment term slightly.",
                frequency, CeilDiv(debtAmount, amount), debtAmount, "", stage)
        ELSE
            Returned(
                ChatMessage(
                    Msg(IF resp.message # "" THEN resp.message
                        ELSE "This is a reasonable payment plan.", NoNote),
                    "paymentPlans",
                    <<PaymentPlan(frequency, amount, termLength, debtAmount)>>),
                stage + 1)

(* Faulty variant: the counter for an under-floor amount keeps the proposed term. *)
evaluateAndNegotiateKeepTerm(userProposal, debtAmount, userSituation, resp, stage) ==
    LET amount == userProposal.amount
        frequency == userProposal.frequency
        termLength == userProposal.termLength
        absoluteMinPayment == getMinimumPayment(frequency, debtAmount)
        totalProposed == amount * termLength
        hasHardship == hasHardshipEvaluate(userSituation)
        multiplier == IF hasHardship THEN Mult110 ELSE Mult125
    IN  IF frequency \notin allowedFrequencies THEN
            createCounterProposal("Invalid payment frequency.", "monthly",
                                  FallbackTerm, debtAmount, "", stage)
        ELSE IF totalProposed < debtAmount THEN
            IF amount < absoluteMinPayment THEN
                LET suggestedAmount == CeilMul(absoluteMinPayment, Mult125)
                    suggestedTerm == CeilDiv(debtAmount, suggestedAmount)
                IN  createCounterProposal("Here's a suggested plan that works better.",
                                          frequency, suggestedTerm, debtAmount, "", stage)
            ELSE
                LET adjustedTerm == CeilDiv(debtAmount, amount)
                IN  createCounterProposal("We need to adjust the term to cover the full debt.",
                                          frequency, adjustedTerm, debtAmount, "", stage)
        ELSE IF amount < absoluteMinPayment THEN
            LET counterAmount == CeilMul(absoluteMinPayment, multiplier)
                counterTerm == CeilDiv(debtAmount, counterAmount)
            IN  createCounterProposal(
                    IF hasHardship THEN "We need something a bit higher."
                    ELSE "We need to increase the payment amount.",
                    frequency, termLength, debtAmount, "", stage)
        ELSE IF amount * termLength # debtAmount THEN
            LET adjustedTerm == CeilDiv(debtAmount, amount)
            IN  createCounterProposal("Let me adjust the payment term slightly.",
                                      frequency, adjustedTerm, debtAmount, "", stage)
        ELSE
            Returned(
                ChatMessage(
                    Msg(IF resp.message # "" THEN resp.message
                        ELSE "This is a reasonable payment plan.", NoNote),
                    "paymentPlans",
                    <<PaymentPlan(frequency, amount, termLength, debtAmount)>>),
                stage + 1)

(* Faulty variant: an overshooting under-floor amount is countered before stage 2 only. *)
evaluateAndNegotiateStageGated(userProposal, debtAmount, userSituation, resp, stage) ==
    LET amount == userProposal.amount
        frequency == userProposal.frequency
        termLength == userProposal.termLength
        absoluteMinPayment == getMinimumPayment(frequency, debtAmount)
        totalProposed == amount * termLength
        hasHardship == hasHardshipEvaluate(userSituation)
        multiplier == IF hasHardship THEN Mult110 ELSE Mult125
    IN  IF frequency \notin allowedFrequencies THEN
            createCounterProposal("Invalid payment frequency.", "monthly",
                                  FallbackTerm, debtAmount, "", stage)
        ELSE IF totalProposed < debtAmount THEN
            IF amount < absoluteMinPayment THEN
                LET suggestedAmount == CeilMul(absoluteMinPayment, Mult125)
                    suggestedTerm == CeilDiv(debtAmount, suggestedAmount)
                IN  createCounterProposal("Here's a suggested plan that works better.",
                                          frequency, suggestedTerm, debtAmount, "", stage)
            ELSE
                LET adjustedTerm == CeilDiv(debtAmount, amount)
                IN  createCounterProposal("We need to adjust the term to cover the full debt.",
                                          frequency, adjustedTerm, debtAmount, "", stage)
        ELSE IF amount < absoluteMinPayment /\ stage < LateStage THEN
            LET counterAmount == CeilMul(absoluteMinPayment, multiplier)
                counterTerm == CeilDiv(debtAmount, counterAmount)
            IN  createCounterProposal(
                    IF hasHardship THEN "We need something a bit higher."
                    ELSE "We need to increase the payment amount.",
                    frequency, counterTerm, debtAmount, "", stage)
        ELSE IF amount * termLength # debtAmount THEN
            LET adjustedTerm == CeilDiv(debtAmount, amount)
            IN  createCounterProposal("Let me adjust the payment term slightly.",
                                      frequency, adjustedTerm, debtAmount, "", stage)
        ELSE
            Returned(
                ChatMessage(
                    Msg(IF resp.message # "" THEN resp.message
                        ELSE "This is a reasonable payment plan.", NoNote),
                    "paymentPlans",
                    <<PaymentPlan(frequency, amount, termLength, debtAmount)>>),
                stage + 1)

evaluateAndNegotiate(userProposal, debtAmount, userSituation, resp, stage) ==
    LET amount == userProposal.amount
        frequency == userProposal.frequency
        termLength == userProposal.termLength
        absoluteMinPayment == getMinimumPayment(frequency, debtAmount)
        totalProposed == amount * termLength
        hasHardship == hasHardshipEvaluate(userSituation)
        multiplier == IF hasHardship THEN Mult110 ELSE Mult125
    IN  IF frequency \notin allowedFrequencies THEN
            createCounterProposal("Invalid payment frequency.", "monthly",
                                  FallbackTerm, debtAmount, "", stage)
        ELSE IF totalProposed < debtAmount THEN
            IF amount < absoluteMinPayment THEN
                LET suggestedAmount == CeilMul(absoluteMinPayment, Mult125)
                    suggestedTerm == CeilDiv(debtAmount, suggestedAmount)
                IN  createCounterProposal("Here's a suggested plan that works better.",
                                          frequency, suggestedTerm, debtAmount, "", stage)
            ELSE
                LET adjustedTerm == CeilDiv(debtAmount, amount)
                IN  createCounterProposal("We need to adjust the term to cover the full debt.",
                                          frequency, adjustedTerm, debtAmount, "", stage)
        ELSE IF amount < absoluteMinPayment THEN
            LET counterAmount == CeilMul(absoluteMinPayment, multiplier)
                counterTerm == CeilDiv(debtAmount, counterAmount)
            IN  createCounterProposal(
                    IF hasHardship THEN "We need something a bit higher."
                    ELSE "We need to increase the payment amount.",
                    frequency, counterTerm, debtAmount, "", stage)
        ELSE IF amount * termLength # debtAmount THEN
            LET adjustedTerm == CeilDiv(debtAmount, amount)
            IN  createCounterProposal("Let me adjust the payment term slightly.",
                                      frequency, adjustedTerm, debtAmount, "", stage)
        ELSE
            Returned(
                ChatMessage(
                    Msg(IF resp.message # "" THEN resp.message
                        ELSE "This is a reasonable payment plan.", NoNote),
                    "paymentPlans",
                    <<PaymentPlan(frequency, amount, termLength, debtAmount)>>),
                stage + 1)

hasHardshipSuggest(userSituation) ==
    \/ includes(toLowerCase(userSituation), KwHardship)
    \/ includes(toLowerCase(userSituation), KwLaidOff)
    \/ includes(toLowerCase(userSituation), KwMedical)

(* Faulty variant: under-floor amounts are escalated at stage 0 only. *)
suggestPlanGateOne(proposedPlan, debtAmount, userSituation, message, stage) ==
    LET amount == proposedPlan.amount
        frequency == proposedPlan.frequency
        termLength == proposedPlan.termLength
        absoluteMinPayment == getMinimumPayment(frequency, debtAmount)
        calculatedTotal == amount * termLength
        hasHardship == hasHardshipSuggest(userSituation)
    IN  IF frequency \notin allowedFrequencies THEN
            createCounterProposal("Our system only supports weekly, biweekly, or monthly.",
                                  "monthly", FallbackTerm, debtAmount, message, stage)
        ELSE IF calculatedTotal # debtAmount THEN
            LET adjustedTerm == CeilDiv(debtAmount, amount)
            IN  createCounterProposal("Let me adjust this plan.",
                                      frequency, adjustedTerm, debtAmount, message, stage)
        ELSE IF amount < absoluteMinPayment /\ stage < LateStage - 1 THEN
            LET suggestedAmount == CeilMul(absoluteMinPayment, Mult150)
                suggestedTerm == CeilDiv(debtAmount, suggestedAmount)
            IN  createCounterProposal("I need to suggest a more effective payment plan.",
                                      frequency, suggestedTerm, debtAmount, message, stage)
        ELSE IF hasHardship /\ stage < LateStage THEN
            LET suggestedAmount == CeilMul(absoluteMinPayment, Mult120)
                suggestedTerm == CeilDiv(debtAmount, suggestedAmount)
            IN  createCounterProposal("Here's a plan that might work better for you.",
                                      frequency, suggestedTerm, debtAmount, message, stage)
        ELSE
            Returned(
                ChatMessage(Msg(message, NoNote), "paymentPlans",
                            <<PaymentPlan(frequency, amount, termLength, debtAmount)>>),
                stage + 1)

(* Faulty variant: the hardship counter is made at every stage. *)
suggestPlanHardshipUngated(proposedPlan, debtAmount, userSituation, message, stage) ==
    LET amount == proposedPlan.amount
        frequency == proposedPlan.frequency
        termLength == proposedPlan.termLength
        absoluteMinPayment == getMinimumPayment(frequency, debtAmount)
        calculatedTotal == amount * termLength
        hasHardship == hasHardshipSuggest(userSituation)
    IN  IF frequency \notin allowedFrequencies THEN
            createCounterProposal("Our system only supports weekly, biweekly, or monthly.",
                                  "monthly", FallbackTerm, debtAmount, message, stage)
        ELSE IF calculatedTotal # debtAmount THEN
            LET adjustedTerm == CeilDiv(debtAmount, amount)
            IN  createCounterProposal("Let me adjust this plan.",
                                      frequency, adjustedTerm, debtAmount, message, stage)
        ELSE IF amount < absoluteMinPayment /\ stage < LateStage THEN
            LET suggestedAmount == CeilMul(absoluteMinPayment, Mult150)
                suggestedTerm == CeilDiv(debtAmount, suggestedAmount)
            IN  createCounterProposal("I need to suggest a more effective payment plan.",
                                      frequency, suggestedTerm, debtAmount, message, stage)
        ELSE IF hasHardship THEN
            LET suggestedAmount == CeilMul(absoluteMinPayment, Mult120)
                suggestedTerm == CeilDiv(debtAmount, suggestedAmount)
            IN  createCounterProposal("Here's a plan that might work better for you.",
                                      frequency, suggestedTerm, debtAmount, message, stage)
        ELSE
            Returned(
                ChatMessage(Msg(message, NoNote), "paymentPlans",
                            <<PaymentPlan(frequency, amount, termLength, debtAmount)>>),
                stage + 1)

(* Faulty variant: under-floor amounts are escalated from stage 2 on only. *)
suggestPlanLateEscalation(proposedPlan, debtAmount, userSituation, message, stage) ==
    LET amount == proposedPlan.amount
        frequency == proposedPlan.frequency
        termLength == proposedPlan.termLength
        absoluteMinPayment == getMinimumPayment(frequency, debtAmount)
        calculatedTotal == amount * termLength
        hasHardship == hasHardshipSuggest(userSituation)
    IN  IF frequency \notin allowedFrequencies THEN
            createCounterProposal("Our system only supports weekly, biweekly, or monthly.",
                                  "monthly", FallbackTerm, debtAmount, message, stage)
        ELSE IF calculatedTotal # debtAmount THEN
            LET adjustedTerm == CeilDiv(debtAmount, amount)
            IN  createCounterProposal("Let me adjust this plan.",
                                      frequency, adjustedTerm, debtAmount, message, stage)
        ELSE IF amount < absoluteMinPayment /\ stage >= LateStage THEN
            LET suggestedAmount == CeilMul(absoluteMinPayment, Mult150)
                suggestedTerm == CeilDiv(debtAmount, suggestedAmount)
            IN  createCounterProposal("I need to suggest a more effective payment plan.",
                                      frequency, suggestedTerm, debtAmount, message, stage)
        ELSE IF hasHardship /\ stage < LateStage THEN
            LET suggestedAmount == CeilMul(absoluteMinPayment, Mult120)
                suggestedTerm == CeilDiv(debtAmount, suggestedAmount)
            IN  createCounterProposal("Here's a plan that might work better for you.",
                                      frequency, suggestedTerm, debtAmount, message, stage)
        ELSE
            Returned(
                ChatMessage(Msg(message, NoNote), "paymentPlans",
                            <<PaymentPlan(frequency, amount, termLength, debtAmount)>>),
                stage + 1)

suggestPlan(proposedPlan, debtAmount, userSituation, message, stage) ==
    LET amount == proposedPlan.amount
        frequency == proposedPlan.frequency
        termLength == proposedPlan.termLength
        absoluteMinPayment == getMinimumPayment(frequency, debtAmount)
        calculatedTotal == amount * termLength
        hasHardship == hasHardshipSuggest(userSituation)
    IN  IF frequency \notin allowedFrequencies THEN
            createCounterProposal("Our system only supports weekly, biweekly, or monthly.",
                                  "monthly", FallbackTerm, debtAmount, message, stage)
        ELSE IF calculatedTotal # debtAmount THEN
            LET adjustedTerm == CeilDiv(debtAmount, amount)
            IN  createCounterProposal("Let me adjust this plan.",
                                      frequency, adjustedTerm, debtAmount, message, stage)
        ELSE IF amount < absoluteMinPayment /\ stage < LateStage THEN
            LET suggestedAmount == CeilMul(absoluteMinPayment, Mult150)
                suggestedTerm == CeilDiv(debtAmount, suggestedAmount)
            IN  createCounterProposal("I need to suggest a more effective payment plan.",
                                      frequency, suggestedTerm, debtAmount, message, stage)
        ELSE IF hasHardship /\ stage < LateStage THEN
            LET suggestedAmount == CeilMul(absoluteMinPayment, Mult120)
                suggestedTerm == CeilDiv(debtAmount, suggestedAmount)
            IN  createCounterProposal("Here's a plan that might work better for you.",
                                      frequency, suggestedTerm, debtAmount, message, stage)
        ELSE
            Returned(
                ChatMessage(Msg(message, NoNote), "paymentPlans",
                            <<PaymentPlan(frequency, amount, termLength, debtAmount)>>),
                stage + 1)

(* `${n}` for a non-negative integer n: its decimal digits *)
RECURSIVE NumberToString(_)
NumberToString(n) ==
    IF n < 10 THEN SubSeq("0123456789", n + 1, n + 1)
    ELSE NumberToString(n \div 10) \o SubSeq("0123456789", (n % 10) + 1, (n % 10) + 1)

(* Faulty variant: the link gives the installment as totalDebtAmount and   *)
(* the total as termPaymentAmount.                                          *)
PaymentLinkSwapped(plan) ==
    "collectwise.com/payments?termLength=" \o NumberToString(plan.termLength)
        \o "&totalDebtAmount=" \o NumberToString(plan.amount)
        \o "&termPaymentAmount=" \o NumberToString(plan.totalAmount)

PaymentLink(plan) ==
    "collectwise.com/payments?termLength=" \o NumberToString(plan.termLength)
        \o "&totalDebtAmount=" \o NumberToString(plan.totalAmount)
        \o "&termPaymentAmount=" \o NumberToString(plan.amount)

(* Faulty variant: the floor is enforced only in early stages, as in suggestPlan. *)
finalizePlanStageGated(plan, userDetails, message, stage) ==
    LET absoluteMinPayment == getMinimumPayment(plan.frequency, plan.totalAmount)
    IN  IF plan.amount < absoluteMinPayment /\ stage < LateStage THEN
            Returned(
                ChatMessage(Msg("I can't finalize this plan.", NoNote), "paymentPlans",
                    <<PaymentPlan(plan.frequency, absoluteMinPayment,
                                  CeilDiv(plan.totalAmount, absoluteMinPayment),
                                  plan.totalAmount)>>),
                stage)
        ELSE
            Returned(
                ChatMessage(Msg(message, NoNote), "finalPlan",
                    <<[frequency |-> plan.frequency, amount |-> plan.amount,
                       termLength |-> plan.termLength,
                       totalAmount |-> plan.totalAmount,
                       paymentLink |-> PaymentLink(plan)]>>),
                0)

(* Faulty variant: a successful finalization leaves the stage as it was. *)
finalizePlanKeepStage(plan, userDetails, message, stage) ==
    LET absoluteMinPayment == getMinimumPayment(plan.frequency, plan.totalAmount)
    IN  IF plan.amount < absoluteMinPayment THEN
            Returned(
                ChatMessage(Msg("I can't finalize this plan.", NoNote), "paymentPlans",
                    <<PaymentPlan(plan.frequency, absoluteMinPayment,
                                  CeilDiv(plan.totalAmount, absoluteMinPayment),
                                  plan.totalAmount)>>),
                stage)
        ELSE
            Returned(
                ChatMessage(Msg(message, NoNote), "finalPlan",
                    <<[frequency |-> plan.frequency, amount |-> plan.amount,
                       termLength |-> plan.termLength,
                       totalAmount |-> plan.totalAmount,
                       paymentLink |-> PaymentLink(plan)]>>),
                stage)

(* Faulty variant: the corrected plan of a refusal rounds its term down. *)
finalizePlanFloorTerm(plan, userDetails, message, stage) ==
    LET absoluteMinPayment == getMinimumPayment(plan.frequency, plan.totalAmount)
    IN  IF plan.amount < absoluteMinPayment THEN
            Returned(
                ChatMessage(Msg("I can't finalize this plan.", NoNote), "paymentPlans",
                    <<PaymentPlan(plan.frequency, absoluteMinPayment,
                                  FloorDiv(plan.totalAmount, absoluteMinPayment),
                                  plan.totalAmount)>>),
                stage)
        ELSE
            Returned(
                ChatMessage(Msg(message, NoNote), "finalPlan",
                    <<[frequency |-> plan.frequency, amount |-> plan.amount,
                       termLength |-> plan.termLength,
                       totalAmount |-> plan.totalAmount,
                       paymentLink |-> PaymentLink(plan)]>>),
                0)

(* Faulty variant: a refusal is returned as a final plan with a link. *)
finalizePlanRefusalTerminal(plan, userDetails, message, stage) ==
    LET absoluteMinPayment == getMinimumPayment(plan.frequency, plan.totalAmount)
    IN  IF plan.amount < absoluteMinPayment THEN
            LET minTerm == CeilDiv(plan.totalAmount, absoluteMinPayment)
                betterPlan == [frequency |-> plan.frequency, amount |-> absoluteMinPayment,
                               termLength |-> minTerm, totalAmount |-> plan.totalAmount,
                               paymentLink |-> PaymentLink(plan)]
            IN  Returned(
                    ChatMessage(Msg("I can't finalize this plan.", NoNote),
                                "finalPlan", <<betterPlan>>),
                    stage)
        ELSE
            LET finalPlan == [frequency |-> plan.frequency, amount |-> plan.amount,
                              termLength |-> plan.termLength,
                              totalAmount |-> plan.totalAmount,
                              paymentLink |-> PaymentLink(plan)]
            IN  Returned(ChatMessage(Msg(message, NoNote), "finalPlan", <<finalPlan>>), 0)

(* Faulty variant: an amount equal to the floor is refused as well. *)
finalizePlanStrictAbove(plan, userDetails, message, stage) ==
    LET absoluteMinPayment == getMinimumPayment(plan.frequency, plan.totalAmount)
    IN  IF plan.amount <= absoluteMinPayment THEN
            LET minTerm == CeilDiv(plan.totalAmount, absoluteMinPayment)
                betterPlan == PaymentPlan(plan.frequency, absoluteMinPayment,
                                          minTerm, plan.totalAmount)
            IN  Returned(
                    ChatMessage(Msg("I can't finalize this plan.", NoNote),
                                "paymentPlans", <<betterPlan>>),
                    stage)
        ELSE
            LET finalPlan == [frequency |-> plan.frequency, amount |-> plan.amount,
                              termLength |-> plan.termLength,
                              totalAmount |-> plan.totalAmount,
                              paymentLink |-> PaymentLink(plan)]
            IN  Returned(ChatMessage(Msg(message, NoNote), "finalPlan", <<finalPlan>>), 0)

finalizePlan(plan, userDetails, message, stage) ==
    LET absoluteMinPayment == getMinimumPayment(plan.frequency, plan.totalAmount)
    IN  IF plan.amount < absoluteMinPayment THEN
            LET minTerm == CeilDiv(plan.totalAmount, absoluteMinPayment)
                betterPlan == PaymentPlan(plan.frequency, absoluteMinPayment,
                                          minTerm, plan.totalAmount)
            IN  Returned(
                    ChatMessage(Msg("I can't finalize this plan.", NoNote),
                                "paymentPlans", <<betterPlan>>),
                    stage)
        ELSE
            LET finalPlan == [frequency |-> plan.frequency, amount |-> plan.amount,
                              termLength |-> plan.termLength,
                              totalAmount |-> plan.totalAmount,
                              paymentLink |-> PaymentLink(plan)]
            IN  Returned(ChatMessage(Msg(message, NoNote), "finalPlan", <<finalPlan>>), 0)

(* ChatBubble's renderPaymentLink: the link is rendered for a message of   *)
(* display kind 'finalPlan' whose displayData carries a paymentLink.       *)
renderPaymentLink(message) ==
    /\ message.displayType = "finalPlan"
    /\ Len(message.displayData) = 1
    /\ "paymentLink" \in DOMAIN message.displayData[1]
    /\ message.displayData[1].paymentLink # ""

---------------------------------------------------------------------------
(* The free-text interceptor.  The three patterns of extractPaymentPlan    *)
(* are matched on the characters of the text as the regular-expression     *)
(* engine matches them: leftmost, alternatives in the order written,       *)
(* quantifiers greedy.  A match is its end (the position after its last    *)
(* character, 0 when there is none) and its first capture group.           *)

(* the character of string t at position i, "" outside of it *)
At(t, i) == IF i \in 1..Len(t) THEN SubSeq(t, i, i) ELSE ""

IsDigit(ch) == ch \in {"0", "1", "2", "3", "4", "5", "6", "7", "8", "9"}

IsLetter(ch) ==
    LowerOf(ch) \in {"a", "b", "c", "d", "e", "f", "g", "h", "i", "j", "k", "l", "m",
                     "n", "o", "p", "q", "r", "s", "t", "u", "v", "w", "x", "y", "z"}

IsWordChar(ch) == IsLetter(ch) \/ IsDigit(ch) \/ ch = "_"

IsSpace(ch) == ch \in {" ", "\t", "\n", "\r"}

(* The number of digits from position i on, at most max of them. *)
DigitRun(t, i, max) ==
    CHOOSE n \in 0..max :
        /\ \A j \in 0..(n - 1) : IsDigit(At(t, i + j))
        /\ n = max \/ ~IsDigit(At(t, i + n))

SpaceRun(t, i) ==
    CHOOSE n \in 0..Len(t) :
        /\ \A j \in 0..(n - 1) : IsSpace(At(t, i + j))
        /\ ~IsSpace(At(t, i + n))

(* word, read from position i on, whatever the case of the letters *)
WordAt(t, i, word) ==
    \A j \in 1..Len(word) : LowerOf(At(t, i + j - 1)) = SubSeq(word, j, j)

NoMatch == [end |-> 0, capture |-> ""]

(* (?:,\d{3})* from position p on: the position after the last group *)
RECURSIVE ThousandsEnd(_, _)
ThousandsEnd(t, p) ==
    IF At(t, p) = "," /\ DigitRun(t, p + 1, 3) = 3 THEN ThousandsEnd(t, p + 4) ELSE p

(* (?:\.\d{2})? from position p on *)
CentsEnd(t, p) ==
    IF At(t, p) = "." /\ DigitRun(t, p + 1, 2) = 2 THEN p + 3 ELSE p

(* \$(\d{1,3}(?:,\d{3})*(?:\.\d{2})?|\d+(?:\.\d{2})?) at position i: the   *)
(* second alternative is tried only when the first one fails.              *)
DollarMatchAt(t, i) ==
    IF At(t, i) # "$" THEN NoMatch
    ELSE LET upToThree == DigitRun(t, i + 1, 3)
             allDigits == DigitRun(t, i + 1, Len(t))
             end == IF upToThree > 0 THEN CentsEnd(t, ThousandsEnd(t, i + 1 + upToThree))
                    ELSE IF allDigits > 0 THEN CentsEnd(t, i + 1 + allDigits)
                    ELSE 0
         IN  IF end = 0 THEN NoMatch
             ELSE [end |-> end, capture |-> SubSeq(t, i + 1, end - 1)]

FrequencyWords == <<"weekly", "biweekly", "monthly">>

(* \b(weekly|biweekly|monthly)\b, case-insensitive, at position i *)
FrequencyMatchAt(t, i) ==
    LET fits(k) == /\ WordAt(t, i, FrequencyWords[k])
                   /\ IsWordChar(At(t, i - 1)) # IsWordChar(At(t, i))
                   /\ IsWordChar(At(t, i + Len(FrequencyWords[k]) - 1))
                          # IsWordChar(At(t, i + Len(FrequencyWords[k])))
    IN  IF \E k \in 1..Len(FrequencyWords) : fits(k)
        THEN LET k == CHOOSE k \in 1..Len(FrequencyWords) :
                          fits(k) /\ \A l \in 1..(k - 1) : ~fits(l)
                 end == i + Len(FrequencyWords[k])
             IN  [end |-> end, capture |-> SubSeq(t, i, end - 1)]
        ELSE NoMatch

TermLeadWords == <<"for", "over">>

TermUnitWords == <<"week", "month", "payment", "installment">>

(* (?:for|over)\s+(\d+)\s+(week|month|payment|installment),                *)
(* case-insensitive, at position i                                          *)
TermMatchAt(t, i) ==
    LET fits(k, u) ==
            LET p == i + Len(TermLeadWords[k])
                digitsAt == p + SpaceRun(t, p)
                unitAt == digitsAt + DigitRun(t, digitsAt, Len(t))
                          + SpaceRun(t, digitsAt + DigitRun(t, digitsAt, Len(t)))
            IN  /\ WordAt(t, i, TermLeadWords[k])
                /\ SpaceRun(t, p) > 0
                /\ DigitRun(t, digitsAt, Len(t)) > 0
                /\ SpaceRun(t, digitsAt + DigitRun(t, digitsAt, Len(t))) > 0
                /\ WordAt(t, unitAt, TermUnitWords[u])
        hits == {ku \in (1..Len(TermLeadWords)) \X (1..Len(TermUnitWords)) :
                     fits(ku[1], ku[2])}
    IN  IF hits = {} THEN NoMatch
        ELSE LET ku == CHOOSE h \in hits :
                           \A g \in hits : h[1] < g[1] \/ (h[1] = g[1] /\ h[2] <= g[2])
                 p == i + Len(TermLeadWords[ku[1]])
                 digitsAt == p + SpaceRun(t, p)
                 digitsEnd == digitsAt + DigitRun(t, digitsAt, Len(t))
             IN  [end |-> digitsEnd + SpaceRun(t, digitsEnd) + Len(TermUnitWords[ku[2]]),
                  capture |-> SubSeq(t, digitsAt, digitsEnd - 1)]

MatchAt(pattern, t, i) ==
    CASE pattern = "dollarPattern" -> DollarMatchAt(t, i)
      [] pattern = "frequencyPattern" -> FrequencyMatchAt(t, i)
      [] pattern = "termPattern" -> TermMatchAt(t, i)

(* [...text.matchAll(pattern)], of which extractPaymentPlan reads the      *)
(* length and element 0 only: the first capture of the leftmost match, in  *)
(* a sequence that is empty when the pattern matches nowhere.              *)
matchAll(pattern, t) ==
    LET starts == {i \in 1..Len(t) : MatchAt(pattern, t, i).end # 0}
    IN  IF starts = {} THEN << >>
        ELSE CHOOSE matches \in {<<MatchAt(pattern, t, first).capture>> :
                                    first \in {i \in starts : \A j \in starts : i <= j}} :
                 TRUE

(* amountStr.replace(/,/g, ''), on the characters of the string *)
RemoveCommas(s) == SelectSeq(s, LAMBDA ch : ch # ",")

DigitValue(ch) == CHOOSE d \in 0..9 : SubSeq("0123456789", d + 1, d + 1) = ch

(* the number denoted by the first n of the digits s *)
RECURSIVE DecimalPrefix(_, _)
DecimalPrefix(s, n) ==
    IF n = 0 THEN 0 ELSE 10 * DecimalPrefix(s, n - 1) + DigitValue(s[n])

(* parseInt of digits *)
parseInt(s) == DecimalPrefix(s, Len(s))

(* parseFloat of digits with optional cents; the texts of the model carry  *)
(* whole amounts, whose value is that of the digits before the point.      *)
parseFloat(s) ==
    IF \E i \in 1..Len(s) : s[i] = "."
    THEN DecimalPrefix(s, (CHOOSE i \in 1..Len(s) : s[i] = ".") - 1)
    ELSE DecimalPrefix(s, Len(s))

FrequencyOfWord(w) ==
    CASE w = Chars("weekly") -> "weekly"
      [] w = Chars("biweekly") -> "biweekly"
      [] w = Chars("monthly") -> "monthly"

(* The assistant's free texts of the conversations. *)
AssistantTexts ==
    {"ok", "$25 Weekly", "$1200 biweekly", "$300 monthly for 6 months"}

(* extractPaymentPlan from the `if` of line 515 on, given the matches *)
PlanOfMatches(dollarMatches, frequencyMatches, termMatches, debtAmount) ==
    IF Len(dollarMatches) > 0 /\ Len(frequencyMatches) > 0 THEN
        LET amountStr == RemoveCommas(Chars(dollarMatches[1]))
            amount == parseFloat(amountStr)
            frequency == FrequencyOfWord(toLowerCase(Chars(frequencyMatches[1])))
            termLength == IF Len(termMatches) > 0
                          THEN parseInt(Chars(termMatches[1]))
                          ELSE CeilDiv(debtAmount, amount)
        IN  [found |-> TRUE,
             plan |-> [frequency |-> frequency, amount |-> amount,
                       termLength |-> termLength]]
    ELSE [found |-> FALSE]

(* The three match lists are each computed once, then read. *)
extractPaymentPlan(text, debtAmount) ==
    CHOOSE extracted \in
        {PlanOfMatches(dollarMatches, frequencyMatches, termMatches, debtAmount) :
            dollarMatches \in {matchAll("dollarPattern", text)},
            frequencyMatches \in {matchAll("frequencyPattern", text)},
            termMatches \in {matchAll("termPattern", text)}} : TRUE

interceptImplicitPaymentOffers(text, debt, stage) ==
    CHOOSE interception \in
        {IF extracted.found THEN
             [shouldIntercept |-> TRUE,
              intercepted |-> suggestPlan(extracted.plan, debt, TextEmpty, text, stage)]
         ELSE [shouldIntercept |-> FALSE] :
            extracted \in {extractPaymentPlan(text, debt)}} : TRUE

---------------------------------------------------------------------------
(* The state machine: initializeAssistant and the steps of sendMessage.    *)

Init ==
    /\ threadId = "null"
    /\ assistantId = "null"
    /\ currentDebtAmount = DefaultDebt
    /\ negotiationStage = 0
    /\ pc = "idle"
    /\ response = EmptyResponse
    /\ call = NoCall
    /\ callsSinceReset = 0
    /\ probe = << >>

(* initializeAssistant(debtAmount): stores the debt, resets the stage and  *)
(* creates the assistant and the thread.                                    *)
InitializeAssistant(debtAmount) ==
    /\ currentDebtAmount' = debtAmount
    /\ negotiationStage' = 0
    /\ assistantId' = "assistant"
    /\ threadId' = "thread"
    /\ call' = NoCall
    /\ callsSinceReset' = 0
    /\ UNCHANGED <<pc, response, probe>>

(* sendMessage up to its polling loop: initializeAssistant() with the      *)
(* default debt when no thread exists, then the empty text response.       *)
SendMessage ==
    /\ pc = "idle"
    /\ IF threadId = "null" \/ assistantId = "null"
       THEN /\ currentDebtAmount' = DefaultDebt
            /\ negotiationStage' = 0
            /\ assistantId' = "assistant"
            /\ threadId' = "thread"
            /\ callsSinceReset' = 0
       ELSE UNCHANGED <<currentDebtAmount, negotiationStage, assistantId,
                        threadId, callsSinceReset>>
    /\ response' = EmptyResponse
    /\ pc' = "polling"
    /\ call' = NoCall
    /\ UNCHANGED probe

(* requires_action with a tool call to evaluateAndNegotiate. *)
ToolCallEvaluate(userProposal, debtAmount, userSituation, resp) ==
    /\ pc = "polling"
    /\ negotiationStage < MaxStage
    /\ LET r == evaluateAndNegotiate(userProposal, debtAmount, userSituation,
                                     resp, negotiationStage)
       IN  /\ response' = r.result
           /\ negotiationStage' = r.negotiationStage
    /\ call' = [fn |-> "evaluateAndNegotiate", plan |-> userProposal,
                debtAmount |-> debtAmount, userSituation |-> userSituation,
                message |-> resp.message, stage |-> negotiationStage,
                via |-> "tool"]
    /\ callsSinceReset' = callsSinceReset + 1
    /\ pc' = "submitted"
    /\ UNCHANGED <<threadId, assistantId, currentDebtAmount, probe>>

(* requires_action with a tool call to suggestPlan. *)
ToolCallSuggest(proposedPlan, debtAmount, userSituation, message) ==
    /\ pc = "polling"
    /\ negotiationStage < MaxStage
    /\ LET r == suggestPlan(proposedPlan, debtAmount, userSituation, message,
                            negotiationStage)
       IN  /\ response' = r.result
           /\ negotiationStage' = r.negotiationStage
    /\ call' = [fn |-> "suggestPlan", plan |-> proposedPlan,
                debtAmount |-> debtAmount, userSituation |-> userSituation,
                message |-> message, stage |-> negotiationStage,
                via |-> "tool"]
    /\ callsSinceReset' = callsSinceReset + 1
    /\ pc' = "submitted"
    /\ UNCHANGED <<threadId, assistantId, currentDebtAmount, probe>>

(* requires_action with a tool call to finalizePlan. *)
ToolCallFinalize(plan, message) ==
    /\ pc = "polling"
    /\ LET r == finalizePlan(plan, "", message, negotiationStage)
       IN  /\ response' = r.result
           /\ negotiationStage' = r.negotiationStage
           /\ callsSinceReset' = IF r.result.displayType = "finalPlan" THEN 0
                                 ELSE callsSinceReset
    /\ call' = [fn |-> "finalizePlan", plan |-> plan,
                debtAmount |-> plan.totalAmount, userSituation |-> TextEmpty,
                message |-> message, stage |-> negotiationStage,
                via |-> "tool"]
    /\ pc' = "submitted"
    /\ UNCHANGED <<threadId, assistantId, currentDebtAmount, probe>>

(* JSON.parse of a tool call's argument string, {} when it does not parse. *)
(* An argument string is modelled by whether it parses and by its value.   *)
EmptyObject == << >>

parseFunctionArgs(argsString) ==
    IF argsString.parses THEN argsString.value ELSE EmptyObject

Undefined == "undefined"

(* args.key *)
Property(args, key) == IF key \in DOMAIN args THEN args[key] ELSE Undefined

ToolFunctions == {"evaluateAndNegotiate", "suggestPlan", "finalizePlan"}

(* The argument whose properties the function reads first: the             *)
(* destructuring of userProposal and proposedPlan, plan.frequency.         *)
FirstRead(functionName) ==
    CASE functionName = "evaluateAndNegotiate" -> "userProposal"
      [] functionName = "suggestPlan" -> "proposedPlan"
      [] functionName = "finalizePlan" -> "plan"

(* requires_action with a tool call whose argument string does not parse:  *)
(* the function is called with undefined for its plan, reading a property  *)
(* of undefined raises a TypeError, nothing catches it in sendMessage and  *)
(* the call of sendMessage ends without a response.                         *)
ToolCallUnparseable(functionName) ==
    /\ pc = "polling"
    /\ LET args == parseFunctionArgs([parses |-> FALSE])
       IN  Property(args, FirstRead(functionName)) = Undefined
    /\ call' = [fn |-> "none", raised |-> functionName,
                stage |-> negotiationStage, via |-> "tool"]
    /\ pc' = "idle"
    /\ UNCHANGED <<threadId, assistantId, currentDebtAmount, negotiationStage,
                   response, callsSinceReset, probe>>

(* Run completed after a tool call left a message: it is returned as is.   *)
RunCompletedWithResponse ==
    /\ pc = "submitted"
    /\ response.message.text # ""
    /\ pc' = "idle"
    /\ call' = NoCall
    /\ UNCHANGED <<threadId, assistantId, currentDebtAmount, negotiationStage,
                   response, callsSinceReset, probe>>

(* Run completed with no message so far: the assistant's text is checked   *)
(* for an implied offer and replaced by suggestPlan's response, or passed.  *)
RunCompletedText(text) ==
    /\ pc \in {"polling", "submitted"}
    /\ response.message.text = ""
    /\ negotiationStage < MaxStage
    /\ \E interception \in
           {interceptImplicitPaymentOffers(text, currentDebtAmount, negotiationStage)} :
           IF interception.shouldIntercept THEN
               /\ response' = interception.intercepted.result
               /\ negotiationStage' = interception.intercepted.negotiationStage
               /\ callsSinceReset' = callsSinceReset + 1
               /\ call' = [fn |-> "suggestPlan",
                           plan |-> extractPaymentPlan(text, currentDebtAmount).plan,
                           debtAmount |-> currentDebtAmount,
                           userSituation |-> TextEmpty,
                           message |-> text, stage |-> negotiationStage,
                           via |-> "interceptor"]
           ELSE
               /\ response' = [response EXCEPT !.message = Msg(text, NoNote)]
               /\ call' = [fn |-> "none", debtAmount |-> currentDebtAmount,
                           message |-> text, stage |-> negotiationStage,
                           via |-> "interceptor"]
               /\ UNCHANGED <<negotiationStage, callsSinceReset>>
    /\ pc' = "idle"
    /\ UNCHANGED <<threadId, assistantId, currentDebtAmount, probe>>

(* Run failed, cancelled or expired. *)
RunFailed ==
    /\ pc \in {"polling", "submitted"}
    /\ response' = [response EXCEPT !.message = Msg("I'm sorry, I encountered an issue.", NoNote)]
    /\ pc' = "idle"
    /\ call' = NoCall
    /\ UNCHANGED <<threadId, assistantId, currentDebtAmount, negotiationStage,
                   callsSinceReset, probe>>

Proposals == [frequency : Frequencies, amount : Amounts, termLength : TermLengths]

Plans ==
    [frequency : Frequencies, amount : Amounts, termLength : TermLengths,
     totalAmount : DebtAmounts]

(* A run is taken to require action at most once, with one tool call: the *)
(* engine functions read negotiationStage only, never `response`, so a run *)
(* with several tool calls acts on the stage as the same calls in          *)
(* successive turns.  The guards of the tool calls stand before the choice *)
(* of their inputs.                                                         *)
Next ==
    \/ \E d \in ConversationDebts : InitializeAssistant(d)
    \/ SendMessage
    \/ /\ pc = "polling"
       /\ \E p \in Proposals, d \in DebtAmounts, s \in Situations, m \in Messages :
              ToolCallEvaluate(p, d, s, [message |-> m])
    \/ /\ pc = "polling"
       /\ \E p \in Proposals, d \in DebtAmounts, s \in Situations, m \in Messages :
              ToolCallSuggest(p, d, s, m)
    \/ /\ pc = "polling"
       /\ \E p \in Plans, m \in Messages : ToolCallFinalize(p, m)
    \/ \E f \in ToolFunctions : ToolCallUnparseable(f)
    \/ RunCompletedWithResponse
    \/ /\ pc \in {"polling", "submitted"}
       /\ response.message.text = ""
       /\ \E t \in AssistantTexts : RunCompletedText(t)
    \/ RunFailed

Spec == Init /\ [][Next]_vars

---------------------------------------------------------------------------
(* Pure functions on their own: ProbeSpec draws an input, applies the      *)
(* function once and keeps input and output in `probe`.                     *)

ProbeDebts == (0..MaxProbeDebt) \cup {625, 1200, DefaultDebt}

ProbeTexts ==
    {"I can do $300 monthly for 6 months",
     "I cannot pay anything right now",
     "Pay $1,200 Weekly",
     "$1200 biweekly over 12 payments",
     "monthly works",
     "$25 is fine",
     "$300 or $25 weekly or monthly",
     "$25.00 weekly"}

ProbeInputs ==
    [fn : {"getMinimumPayment"}, frequency : Frequencies,
     debtAmount : ProbeDebts, done : {FALSE}]
    \cup
    [fn : {"createCounterProposal"}, totalAmount : 0..MaxProbeDebt,
     termLength : 1..MaxProbeTerm, done : {FALSE}]
    \cup
    [fn : {"extractPaymentPlan"}, text : ProbeTexts,
     debtAmount : ProbeDebts, done : {FALSE}]

ProbeInit ==
    /\ threadId = "null"
    /\ assistantId = "null"
    /\ currentDebtAmount = DefaultDebt
    /\ negotiationStage = 0
    /\ pc = "idle"
    /\ response = EmptyResponse
    /\ call = NoCall
    /\ callsSinceReset = 0
    /\ probe \in ProbeInputs

ProbeGetMinimumPayment ==
    /\ probe.fn = "getMinimumPayment"
    /\ ~probe.done
    /\ probe' = [fn |-> probe.fn, frequency |-> probe.frequency,
                 debtAmount |-> probe.debtAmount, done |-> TRUE,
                 out |-> getMinimumPayment(probe.frequency, probe.debtAmount)]
    /\ UNCHANGED <<threadId, assistantId, currentDebtAmount, negotiationStage,
                   pc, response, call, callsSinceReset>>

ProbeCreateCounterProposal ==
    /\ probe.fn = "createCounterProposal"
    /\ ~probe.done
    /\ probe' = [fn |-> probe.fn, totalAmount |-> probe.totalAmount,
                 termLength |-> probe.termLength, done |-> TRUE,
                 out |-> createCounterProposal("system message", "monthly",
                             probe.termLength, probe.totalAmount, "", 0).result]
    /\ UNCHANGED <<threadId, assistantId, currentDebtAmount, negotiationStage,
                   pc, response, call, callsSinceReset>>

ProbeExtractPaymentPlan ==
    /\ probe.fn = "extractPaymentPlan"
    /\ ~probe.done
    /\ probe' = [fn |-> probe.fn, text |-> probe.text,
                 debtAmount |-> probe.debtAmount, done |-> TRUE,
                 out |-> extractPaymentPlan(probe.text, probe.debtAmount)]
    /\ UNCHANGED <<threadId, assistantId, currentDebtAmount, negotiationStage,
                   pc, response, call, callsSinceReset>>

ProbeNext ==
    \/ ProbeGetMinimumPayment
    \/ ProbeCreateCounterProposal
    \/ ProbeExtractPaymentPlan

ProbeSpec == ProbeInit /\ [][ProbeNext]_vars

---------------------------------------------------------------------------
(* The claims.  The floor of the specification, in exact arithmetic.       *)

SpecMinimumPayment(frequency, debtAmount) ==
    CASE frequency = "monthly" -> CeilDiv(debtAmount * 8, 100)
      [] frequency = "biweekly" -> CeilDiv(debtAmount * 4, 100)
      [] frequency = "weekly" -> CeilDiv(debtAmount * 2, 100)
      [] OTHER -> CeilDiv(debtAmount * 8, 100)

ReturnedPlan == response.displayData[1]

IsTerminal == response.displayType = "finalPlan"

ReturnedUnchanged ==
    /\ response.displayType = "paymentPlans"
    /\ ReturnedPlan.frequency = call.plan.frequency
    /\ ReturnedPlan.amount = call.plan.amount
    /\ ReturnedPlan.termLength = call.plan.termLength

(* C1: finalizePlan never returns a terminal agreement (finalPlan) for a   *)
(* plan whose amount is below minimumPayment(frequency, totalAmount), at   *)
(* whatever stage and after whatever calls it is made.                     *)
C1_FinalizeNeverBelowFloor ==
    (call.fn = "finalizePlan" /\ IsTerminal) =>
        call.plan.amount >= SpecMinimumPayment(call.plan.frequency, call.plan.totalAmount)

C1_Witness ==
    /\ call.fn = "finalizePlan"
    /\ IsTerminal
    /\ call.stage = LateStage
    /\ call.plan.amount = SpecMinimumPayment(call.plan.frequency, call.plan.totalAmount)

(* C2: every plan the engine accepts (a proposal evaluateAndNegotiate or   *)
(* suggestPlan returns unchanged, a plan finalizePlan returns as terminal  *)
(* agreement) has amount * termLength = totalAmount.                       *)
C2_AcceptedPlansExact ==
    ( \/ (call.fn \in {"evaluateAndNegotiate", "suggestPlan"} /\ ReturnedUnchanged)
      \/ (call.fn = "finalizePlan" /\ IsTerminal) )
    => ReturnedPlan.amount * ReturnedPlan.termLength = ReturnedPlan.totalAmount

(* C3: every terminal agreement of finalizePlan covers the conversation's  *)
(* stored debt: amount * termLength >= currentDebtAmount.                   *)
C3_FinalPlanCoversDebt ==
    (call.fn = "finalizePlan" /\ IsTerminal) =>
        ReturnedPlan.amount * ReturnedPlan.termLength >= currentDebtAmount

(* C4 as stated: after finalizePlan the stage is 0 exactly when the call   *)
(* returned a terminal agreement.                                           *)
C4_StageZeroIffTerminal ==
    call.fn = "finalizePlan" => (negotiationStage = 0 <=> IsTerminal)

(* C4 amended: a finalizePlan that returns a terminal agreement leaves the *)
(* stage at 0, one that refuses leaves it at its previous value (which may *)
(* itself be 0).                                                            *)
C4_FinalizeStage ==
    call.fn = "finalizePlan" =>
        /\ IsTerminal => negotiationStage = 0
        /\ ~IsTerminal => (response.displayType = "paymentPlans"
                           /\ negotiationStage = call.stage)

C4_Witness ==
    /\ call.fn = "finalizePlan"
    /\ IsTerminal
    /\ call.stage > 0
    /\ negotiationStage = 0

(* C5: every evaluateAndNegotiate or suggestPlan call (the interceptor's   *)
(* included) raises the stage by exactly one on every branch, so the stage *)
(* is non-negative and equals the number of such calls since the last      *)
(* initializeAssistant or successful finalizePlan.                          *)
C5_StageCountsCalls ==
    /\ negotiationStage >= 0
    /\ negotiationStage = callsSinceReset
    /\ call.fn \in {"evaluateAndNegotiate", "suggestPlan"} =>
           negotiationStage = call.stage + 1

C5_Witness ==
    /\ call.fn = "suggestPlan"
    /\ call.via = "interceptor"
    /\ call.stage = 1
    /\ negotiationStage = 2
    /\ callsSinceReset = 2

(* C6: the builder's split, regularAmount = floor(total / term) and        *)
(* finalAmount = total - regularAmount * (term - 1), sums to the total,    *)
(* has finalAmount >= 0, and is uneven exactly when the total is not a     *)
(* multiple of the term.  The final amount is read from the note the       *)
(* builder appends when the two differ.                                     *)
C6_SplitInstallments ==
    (probe.fn = "createCounterProposal" /\ probe.done) =>
        LET regularAmount == probe.out.displayData[1].amount
            uneven == probe.out.message.note # NoNote
            finalAmount == IF uneven THEN probe.out.message.note[1] ELSE regularAmount
        IN  /\ regularAmount * (probe.termLength - 1) + finalAmount = probe.totalAmount
            /\ finalAmount >= 0
            /\ uneven <=> (probe.totalAmount % probe.termLength # 0)
            /\ uneven => regularAmount # finalAmount

C6_Witness ==
    /\ probe.fn = "createCounterProposal"
    /\ probe.done
    /\ probe.totalAmount = 10
    /\ probe.termLength = 3
    /\ probe.out.displayData[1].amount = 3
    /\ probe.out.message.note = <<4>>

(* C7: for a fixed frequency getMinimumPayment is non-decreasing in the    *)
(* debt.                                                                    *)
C7_MinimumPaymentMonotone ==
    (probe.fn = "getMinimumPayment" /\ probe.done) =>
        \A d \in ProbeDebts :
            /\ d <= probe.debtAmount =>
                   getMinimumPayment(probe.frequency, d) <= probe.out
            /\ d >= probe.debtAmount =>
                   getMinimumPayment(probe.frequency, d) >= probe.out

C7_Witness ==
    /\ probe.fn = "getMinimumPayment"
    /\ probe.done
    /\ probe.frequency = "weekly"
    /\ probe.debtAmount = 51
    /\ probe.out = 2

(* C8: getMinimumPayment is the debt times 8% (monthly), 4% (biweekly),    *)
(* 2% (weekly) or 8% (any other frequency), rounded up to a whole unit.    *)
C8_MinimumPaymentRateTable ==
    (probe.fn = "getMinimumPayment" /\ probe.done) =>
        LET percent == CASE probe.frequency = "monthly" -> 8
                         [] probe.frequency = "biweekly" -> 4
                         [] probe.frequency = "weekly" -> 2
                         [] OTHER -> 8
        IN  /\ probe.out * 100 >= probe.debtAmount * percent
            /\ (probe.out - 1) * 100 < probe.debtAmount * percent
            /\ probe.out = SpecMinimumPayment(probe.frequency, probe.debtAmount)

C8_Witness ==
    /\ probe.fn = "getMinimumPayment"
    /\ probe.done
    /\ probe.frequency = "daily"
    /\ probe.debtAmount = DefaultDebt
    /\ probe.out = 192

(* C9: when evaluateAndNegotiate gets an allowed frequency and an amount   *)
(* below the floor, its counter has amount = ceil(minPayment * m) and      *)
(* termLength = ceil(debtAmount / amount), m = 1.10 if the proposal covers *)
(* the debt and the situation signals hardship, 1.25 otherwise; so the     *)
(* counter covers the debt and, when the proposal did not, its amount is   *)
(* at least ceil(minPayment * 1.25).                                        *)
C9_UnderFloorCounter ==
    ( /\ call.fn = "evaluateAndNegotiate"
      /\ call.plan.frequency \in allowedFrequencies
      /\ call.plan.amount < SpecMinimumPayment(call.plan.frequency, call.debtAmount) )
    =>
        LET minPayment == SpecMinimumPayment(call.plan.frequency, call.debtAmount)
            covers == call.plan.amount * call.plan.termLength >= call.debtAmount
            hardship == call.userSituation \in {TextMedical, TextDifficult}
            target == IF covers /\ hardship THEN CeilDiv(minPayment * 11, 10)
                      ELSE CeilDiv(minPayment * 5, 4)
        IN  /\ ReturnedPlan.amount = target
            /\ ReturnedPlan.termLength = CeilDiv(call.debtAmount, target)
            /\ ReturnedPlan.amount * ReturnedPlan.termLength >= call.debtAmount
            /\ ~covers => ReturnedPlan.amount >= CeilDiv(minPayment * 5, 4)

(* C10: evaluateAndNegotiate returns the proposal itself (one plan, same   *)
(* frequency, amount and termLength, totalAmount = debtAmount) exactly     *)
(* when the frequency is allowed, amount >= minimumPayment and             *)
(* amount * termLength = debtAmount; otherwise it returns a counter-offer  *)
(* of the shared builder: one plan of amount floor(debtAmount/termLength)  *)
(* under the builder's message.                                             *)
C10_AcceptIffExactAndAboveFloor ==
    call.fn = "evaluateAndNegotiate" =>
        LET acceptable ==
                /\ call.plan.frequency \in allowedFrequencies
                /\ call.plan.amount >=
                       SpecMinimumPayment(call.plan.frequency, call.debtAmount)
                /\ call.plan.amount * call.plan.termLength = call.debtAmount
            acceptMessage == IF call.message # "" THEN call.message
                             ELSE "This is a reasonable payment plan."
        IN  /\ response.displayType = "paymentPlans"
            /\ Len(response.displayData) = 1
            /\ ReturnedPlan.totalAmount = call.debtAmount
            /\ acceptable <=> ReturnedUnchanged
            /\ acceptable => response.message = Msg(acceptMessage, NoNote)
            /\ ~acceptable =>
                   /\ ReturnedPlan.amount =
                          FloorDiv(call.debtAmount, ReturnedPlan.termLength)
                   /\ response.message.text \notin {call.message, acceptMessage}

C10_Witness ==
    /\ call.fn = "evaluateAndNegotiate"
    /\ call.debtAmount = 1200
    /\ call.plan = [frequency |-> "weekly", amount |-> 25, termLength |-> 48]
    /\ ReturnedPlan = PaymentPlan("weekly", 25, 48, 1200)
    /\ negotiationStage = call.stage + 1

(* C11: a finalizePlan call whose plan is below the floor returns a        *)
(* non-terminal paymentPlans response with exactly one corrected plan:     *)
(* amount = the floor, termLength = ceil(totalAmount / floor), frequency   *)
(* and totalAmount those of the input plan, and no payment link.           *)
C11_RefusalCorrectedPlan ==
    ( /\ call.fn = "finalizePlan"
      /\ call.plan.amount < SpecMinimumPayment(call.plan.frequency, call.plan.totalAmount) )
    => LET floorPayment == SpecMinimumPayment(call.plan.frequency, call.plan.totalAmount)
       IN  /\ response.displayType = "paymentPlans"
           /\ Len(response.displayData) = 1
           /\ "paymentLink" \notin DOMAIN ReturnedPlan
           /\ ReturnedPlan = PaymentPlan(call.plan.frequency, floorPayment,
                                         CeilDiv(call.plan.totalAmount, floorPayment),
                                         call.plan.totalAmount)

C11_Witness ==
    /\ call.fn = "finalizePlan"
    /\ call.plan = PaymentPlan("monthly", 50, 12, DefaultDebt)
    /\ response.displayType = "paymentPlans"
    /\ ReturnedPlan.amount = 192
    /\ ReturnedPlan.termLength = 13

(* C12: an evaluateAndNegotiate or suggestPlan call whose frequency is not *)
(* weekly, biweekly or monthly returns the fixed fallback counter-offer:   *)
(* monthly, 6 terms, totalAmount = debtAmount whatever amount and term     *)
(* were proposed, and the plan covers the debt (amount * termLength >=     *)
(* debtAmount).                                                             *)
C12_FallbackCoversDebt ==
    ( /\ call.fn \in {"evaluateAndNegotiate", "suggestPlan"}
      /\ call.plan.frequency \notin {"weekly", "biweekly", "monthly"} )
    => /\ response.displayType = "paymentPlans"
       /\ Len(response.displayData) = 1
       /\ ReturnedPlan.frequency = "monthly"
       /\ ReturnedPlan.termLength = 6
       /\ ReturnedPlan.totalAmount = call.debtAmount
       /\ ReturnedPlan.amount * ReturnedPlan.termLength >= call.debtAmount

(* C13: what a reader finds in each assistant text of the model: its       *)
(* dollar-amount tokens (digits, optional thousands separators, optional   *)
(* cents), its frequency keywords and the counts of its 'for|over N unit'  *)
(* phrases, in order of appearance.                                         *)
C13_Tokens(text) ==
    CASE text = "I can do $300 monthly for 6 months" ->
             [amounts |-> <<300>>, frequencies |-> <<"monthly">>, terms |-> <<6>>]
      [] text = "I cannot pay anything right now" ->
             [amounts |-> << >>, frequencies |-> << >>, terms |-> << >>]
      [] text = "Pay $1,200 Weekly" ->
             [amounts |-> <<1200>>, frequencies |-> <<"weekly">>, terms |-> << >>]
      [] text = "$1200 biweekly over 12 payments" ->
             [amounts |-> <<1200>>, frequencies |-> <<"biweekly">>, terms |-> <<12>>]
      [] text = "monthly works" ->
             [amounts |-> << >>, frequencies |-> <<"monthly">>, terms |-> << >>]
      [] text = "$25 is fine" ->
             [amounts |-> <<25>>, frequencies |-> << >>, terms |-> << >>]
      [] text = "$300 or $25 weekly or monthly" ->
             [amounts |-> <<300, 25>>, frequencies |-> <<"weekly", "monthly">>,
              terms |-> << >>]
      [] text = "$25.00 weekly" ->
             [amounts |-> <<25>>, frequencies |-> <<"weekly">>, terms |-> << >>]

(* C13: extractPaymentPlan(text, debtAmount) returns found = true exactly  *)
(* when the text contains both a dollar-amount token and a frequency       *)
(* keyword; the plan then carries the first amount, the first frequency    *)
(* keyword and the count of the first 'for|over N unit' phrase, or         *)
(* ceil(debtAmount / amount) when there is no such phrase; otherwise       *)
(* found = false and there is no plan.                                      *)
C13_ExtractorReadsFirstTokens ==
    (probe.fn = "extractPaymentPlan" /\ probe.done) =>
        LET tokens == C13_Tokens(probe.text)
        IN  IF Len(tokens.amounts) > 0 /\ Len(tokens.frequencies) > 0
            THEN /\ probe.out.found
                 /\ probe.out.plan =
                        [frequency |-> tokens.frequencies[1],
                         amount |-> tokens.amounts[1],
                         termLength |-> IF Len(tokens.terms) > 0 THEN tokens.terms[1]
                                        ELSE CeilDiv(probe.debtAmount, tokens.amounts[1])]
            ELSE probe.out = [found |-> FALSE]

(* C14: the interceptor replaces a free-text reply exactly when the        *)
(* extractor finds a plan in it: the response is then the result of        *)
(* suggestPlan(plan, stored debt, empty situation, the text as message)    *)
(* and the stage is one higher; when nothing is found the text is passed   *)
(* unchanged as a plain text message and the stage is as before.           *)
C14_InterceptExactlyWhenFound ==
    ("via" \in DOMAIN call /\ call.via = "interceptor") =>
        LET extracted == extractPaymentPlan(call.message, call.debtAmount)
        IN  IF extracted.found
            THEN /\ call.fn = "suggestPlan"
                 /\ call.debtAmount = currentDebtAmount
                 /\ response = suggestPlan(extracted.plan, call.debtAmount, TextEmpty,
                                           call.message, call.stage).result
                 /\ negotiationStage = call.stage + 1
            ELSE /\ call.fn = "none"
                 /\ response = ChatMessage(Msg(call.message, NoNote), "text", << >>)
                 /\ negotiationStage = call.stage

(* C15: reading a link back.  The positions of a character in a sequence,  *)
(* the k-th of them, and the number the digits from position a to b        *)
(* denote.                                                                  *)
C15_Positions(s, ch) == {i \in 1..Len(s) : s[i] = ch}

C15_Nth(positions, k) ==
    CHOOSE i \in positions : Cardinality({j \in positions : j <= i}) = k

RECURSIVE C15_Decimal(_, _, _)
C15_Decimal(s, a, b) ==
    IF b < a THEN 0
    ELSE 10 * C15_Decimal(s, a, b - 1)
         + (CHOOSE d \in 0..9 : <<"0", "1", "2", "3", "4", "5", "6", "7", "8", "9">>[d + 1] = s[b])

(* C15: the payment link of a terminal agreement is                        *)
(* '<domain>/payments?termLength=T&totalDebtAmount=D&termPaymentAmount=A'  *)
(* with T, D, A the termLength, totalAmount and amount of the plan passed  *)
(* to finalizePlan, in that order, and the final plan carries that plan's  *)
(* frequency, amount, termLength and totalAmount.                           *)
C15_PaymentLinkCarriesPlan ==
    (call.fn = "finalizePlan" /\ IsTerminal) =>
        LET link == Chars(ReturnedPlan.paymentLink)
            slash == C15_Positions(link, "/")
            query == C15_Positions(link, "?")
            amp == C15_Positions(link, "&")
            eq == C15_Positions(link, "=")
            q == C15_Nth(query, 1)
            start(k) == IF k = 1 THEN q + 1 ELSE C15_Nth(amp, k - 1) + 1
            stop(k) == IF k = 3 THEN Len(link) ELSE C15_Nth(amp, k) - 1
            key(k) == SubSeq(link, start(k), C15_Nth(eq, k) - 1)
            value(k) == C15_Decimal(link, C15_Nth(eq, k) + 1, stop(k))
        IN  /\ Cardinality(slash) = 1 /\ Cardinality(query) = 1
            /\ Cardinality(amp) = 2 /\ Cardinality(eq) = 3
            /\ C15_Nth(slash, 1) > 1
            /\ SubSeq(link, C15_Nth(slash, 1), q) = Chars("/payments?")
            /\ \A k \in 1..3 : start(k) < C15_Nth(eq, k) /\ C15_Nth(eq, k) < stop(k)
            /\ \A k \in 1..3 : \A i \in (C15_Nth(eq, k) + 1)..stop(k) : IsDigit(link[i])
            /\ key(1) = Chars("termLength")
            /\ value(1) = call.plan.termLength
            /\ key(2) = Chars("totalDebtAmount")
            /\ value(2) = call.plan.totalAmount
            /\ key(3) = Chars("termPaymentAmount")
            /\ value(3) = call.plan.amount
            /\ ReturnedPlan.frequency = call.plan.frequency
            /\ ReturnedPlan.amount = call.plan.amount
            /\ ReturnedPlan.termLength = call.plan.termLength
            /\ ReturnedPlan.totalAmount = call.plan.totalAmount

C15_Witness ==
    /\ call.fn = "finalizePlan"
    /\ IsTerminal
    /\ call.plan = PaymentPlan("monthly", 240, 10, DefaultDebt)
    /\ ReturnedPlan.paymentLink
           = "collectwise.com/payments?termLength=10&totalDebtAmount=2400&termPaymentAmount=240"

(* C16: no tool call is fatal: whatever its payload, the empty payload {}  *)
(* that stands for unparseable arguments included, each of                 *)
(* evaluateAndNegotiate, suggestPlan and finalizePlan returns a response   *)
(* (a plan to display) and raises nothing.                                  *)
C16_NoToolCallRaises ==
    ("via" \in DOMAIN call /\ call.via = "tool") =>
        /\ "raised" \notin DOMAIN call
        /\ call.fn \in ToolFunctions
        /\ response.displayType \in {"paymentPlans", "finalPlan"}
        /\ Len(response.displayData) = 1

(* C17: one active negotiation per state instance: while a turn of         *)
(* sendMessage is in progress, a step that is not a step of that turn (it  *)
(* leaves the turn where it is) changes neither the stage nor the debt     *)
(* amount the turn observes.                                                *)
C17_TurnIsolated ==
    [][ (pc \in {"polling", "submitted"} /\ pc' = pc)
        => (negotiationStage' = negotiationStage
            /\ currentDebtAmount' = currentDebtAmount) ]_vars

(* C18: every plan evaluateAndNegotiate returns for an allowed frequency   *)
(* (accepted or countered) has amount >= minimumPayment(frequency,         *)
(* totalAmount), so that finalizePlan, given that plan unchanged, returns  *)
(* a terminal agreement.                                                    *)
C18_ReturnedPlanFinalizable ==
    ( /\ call.fn = "evaluateAndNegotiate"
      /\ call.plan.frequency \in {"weekly", "biweekly", "monthly"} )
    => /\ ReturnedPlan.amount
              >= SpecMinimumPayment(ReturnedPlan.frequency, ReturnedPlan.totalAmount)
       /\ finalizePlan(ReturnedPlan, "", "", negotiationStage).result.displayType
              = "finalPlan"

(* C19: every counter-offer plan evaluateAndNegotiate or suggestPlan       *)
(* returns (a plan made by the counter-offer builder, not the proposal     *)
(* returned as it was) satisfies amount * termLength = totalAmount.        *)
C19_CounterOffersExact ==
    ( /\ call.fn \in {"evaluateAndNegotiate", "suggestPlan"}
      /\ ~ReturnedUnchanged )
    => ReturnedPlan.amount * ReturnedPlan.termLength = ReturnedPlan.totalAmount

(* C20: suggestPlan, given an allowed frequency and a plan with            *)
(* amount * termLength # debtAmount, returns a plan with the given amount, *)
(* termLength = ceil(debtAmount / amount) and totalAmount = debtAmount.    *)
C20_SuggestKeepsAmount ==
    ( /\ call.fn = "suggestPlan"
      /\ call.plan.frequency \in {"weekly", "biweekly", "monthly"}
      /\ call.plan.amount * call.plan.termLength # call.debtAmount )
    => /\ response.displayType = "paymentPlans"
       /\ ReturnedPlan.amount = call.plan.amount
       /\ ReturnedPlan.termLength = CeilDiv(call.debtAmount, call.plan.amount)
       /\ ReturnedPlan.totalAmount = call.debtAmount

(* C21: when evaluateAndNegotiate counters a proposal whose amount is at   *)
(* or above the floor (the proposal does not cover the debt, or covers it  *)
(* with amount * termLength # debtAmount), the counter plan keeps the      *)
(* proposed amount and frequency and has termLength =                      *)
(* ceil(debtAmount / amount).                                               *)
C21_EvaluateKeepsAmount ==
    ( /\ call.fn = "evaluateAndNegotiate"
      /\ call.plan.frequency \in {"weekly", "biweekly", "monthly"}
      /\ call.plan.amount >= SpecMinimumPayment(call.plan.frequency, call.debtAmount)
      /\ call.plan.amount * call.plan.termLength # call.debtAmount )
    => /\ response.displayType = "paymentPlans"
       /\ ReturnedPlan.frequency = call.plan.frequency
       /\ ReturnedPlan.amount = call.plan.amount
       /\ ReturnedPlan.termLength = CeilDiv(call.debtAmount, call.plan.amount)
       /\ ReturnedPlan.totalAmount = call.debtAmount

(* C22 as stated: for an allowed frequency, no suggestPlan call made at    *)
(* stage 0 or 1 returns a plan whose amount is below                       *)
(* minimumPayment(frequency, debtAmount).                                   *)
C22_NoUnderFloorEarly ==
    ( /\ call.fn = "suggestPlan"
      /\ call.plan.frequency \in {"weekly", "biweekly", "monthly"}
      /\ call.stage < 2 )
    => ReturnedPlan.amount >= SpecMinimumPayment(call.plan.frequency, call.debtAmount)

(* C22 amended: for an allowed frequency and a plan with                   *)
(* amount * termLength = debtAmount, no suggestPlan call made at stage 0   *)
(* or 1 returns a plan whose amount is below the floor (a plan with        *)
(* amount * termLength # debtAmount is reconciled before the floor is      *)
(* looked at).                                                              *)
C22_NoUnderFloorEarlyExact ==
    ( /\ call.fn = "suggestPlan"
      /\ call.plan.frequency \in {"weekly", "biweekly", "monthly"}
      /\ call.plan.amount * call.plan.termLength = call.debtAmount
      /\ call.stage < 2 )
    => ReturnedPlan.amount >= SpecMinimumPayment(call.plan.frequency, call.debtAmount)

C22_Witness ==
    /\ call.fn = "suggestPlan"
    /\ call.plan.frequency = "monthly"
    /\ call.plan.amount * call.plan.termLength = call.debtAmount
    /\ call.plan.amount < SpecMinimumPayment("monthly", call.debtAmount)
    /\ call.stage = 1
    /\ ReturnedPlan.amount > SpecMinimumPayment("monthly", call.debtAmount)

(* Hardship as the specification detects it: a case-insensitive substring  *)
(* match on 'hardship', 'laid off', 'medical' or 'difficult'.              *)
SpecHardship(situationText) ==
    \E keyword \in {KwHardship, KwLaidOff, KwMedical, KwDifficult} :
        includes(toLowerCase(situationText), keyword)

(* ceil(minimumPayment * num / den) in exact arithmetic *)
SpecScaledFloor(frequency, debtAmount, num, den) ==
    CeilDiv(SpecMinimumPayment(frequency, debtAmount) * num, den)

(* C23: in the stage-gated branches of suggestPlan (allowed frequency,     *)
(* amount * termLength = debtAmount, stage < 2) the counter plan has       *)
(* amount = ceil(minPayment * 1.5) when the proposed amount is below       *)
(* minPayment, amount = ceil(minPayment * 1.2) when it is at or above      *)
(* minPayment and hardship is detected, and termLength =                   *)
(* ceil(debtAmount / that amount) in both cases.                            *)
C23_StageGatedCounters ==
    ( /\ call.fn = "suggestPlan"
      /\ call.plan.frequency \in {"weekly", "biweekly", "monthly"}
      /\ call.plan.amount * call.plan.termLength = call.debtAmount
      /\ call.stage < 2 )
    => LET floorPayment == SpecMinimumPayment(call.plan.frequency, call.debtAmount)
           escalated == SpecScaledFloor(call.plan.frequency, call.debtAmount, 3, 2)
           eased == SpecScaledFloor(call.plan.frequency, call.debtAmount, 6, 5)
       IN  /\ call.plan.amount < floorPayment =>
                  /\ ReturnedPlan.amount = escalated
                  /\ ReturnedPlan.termLength = CeilDiv(call.debtAmount, escalated)
           /\ (call.plan.amount >= floorPayment /\ SpecHardship(call.userSituation)) =>
                  /\ ReturnedPlan.amount = eased
                  /\ ReturnedPlan.termLength = CeilDiv(call.debtAmount, eased)

C25_AmountAtStage(stage) ==
    suggestPlan(call.plan, call.debtAmount, call.userSituation, call.message,
                stage).result.displayData[1].amount

C26_TermBound ==
    CeilDiv(ReturnedPlan.totalAmount,
            SpecMinimumPayment(ReturnedPlan.frequency, ReturnedPlan.totalAmount))

C27_LinkOnlyFromFinalize ==
    [][ /\ (renderPaymentLink(response') /\ response' # response) =>
              \/ /\ call'.fn = "finalizePlan"
                 /\ call'.plan.amount >=
                        SpecMinimumPayment(call'.plan.frequency, call'.plan.totalAmount)
                 /\ response'.displayData[1].paymentLink = PaymentLink(call'.plan)
              \/ /\ renderPaymentLink(response)
                 /\ response'.displayData = response.displayData
        /\ ( \/ call'.fn \in {"evaluateAndNegotiate", "suggestPlan"}
             \/ /\ call'.fn = "finalizePlan"
                /\ call'.plan.amount <
                       SpecMinimumPayment(call'.plan.frequency, call'.plan.totalAmount) )
           => /\ response'.displayType = "paymentPlans"
              /\ Len(response'.displayData) = 1
              /\ "paymentLink" \notin DOMAIN response'.displayData[1]
              /\ ~renderPaymentLink(response') ]_vars

C27_Witness ==
    /\ call.fn = "finalizePlan"
    /\ call.stage = 2
    /\ call.plan.amount >= SpecMinimumPayment(call.plan.frequency, call.plan.totalAmount)
    /\ renderPaymentLink(response)
    /\ response.displayData[1].paymentLink = PaymentLink(call.plan)

(* C28: suggestPlan detects hardship for exactly the situation texts for   *)
(* which evaluateAndNegotiate detects it: those containing, in any case,   *)
(* 'hardship', 'laid off', 'medical' or 'difficult'.                        *)
C28_SameHardshipDetection ==
    call.fn \in {"evaluateAndNegotiate", "suggestPlan"} =>
        /\ hasHardshipSuggest(call.userSituation) = hasHardshipEvaluate(call.userSituation)
        /\ hasHardshipSuggest(call.userSituation) = SpecHardship(call.userSituation)

(* finalizePlan called again with the plan the latest call returned *)
C29_Retry(message) == finalizePlan(ReturnedPlan, "", message, negotiationStage)

(* C29: whenever finalizePlan refuses a plan with positive totalAmount,    *)
(* finalizePlan called with the corrected plan of that refusal, unchanged, *)
(* returns a terminal agreement for that plan and resets the stage to 0.   *)
C29_OneRetryFinalizes ==
    ( /\ call.fn = "finalizePlan"
      /\ call.plan.totalAmount > 0
      /\ response.displayType = "paymentPlans" )
    => \A message \in Messages :
           /\ C29_Retry(message).result.displayType = "finalPlan"
           /\ C29_Retry(message).negotiationStage = 0
           /\ C29_Retry(message).result.displayData[1].frequency = ReturnedPlan.frequency
           /\ C29_Retry(message).result.displayData[1].amount = ReturnedPlan.amount
           /\ C29_Retry(message).result.displayData[1].termLength = ReturnedPlan.termLength
           /\ C29_Retry(message).result.displayData[1].totalAmount = ReturnedPlan.totalAmount

C29_Witness ==
    /\ call.fn = "finalizePlan"
    /\ call.plan.totalAmount = 625
    /\ response.displayType = "paymentPlans"
    /\ negotiationStage = 2
    /\ ReturnedPlan.amount > call.plan.amount
    /\ C29_Retry("").negotiationStage = 0

(* C30: the plan and display kind returned by evaluateAndNegotiate and by  *)
(* finalizePlan depend on their arguments only: made at any other stage,   *)
(* and with any stored conversation debt, the same call returns the same   *)
(* display kind and plan; suggestPlan's result does vary with the stage.   *)
C30_ResultAtStage(stage) ==
    IF call.fn = "evaluateAndNegotiate" THEN
        evaluateAndNegotiate(call.plan, call.debtAmount, call.userSituation,
                             [message |-> call.message], stage).result
    ELSE finalizePlan(call.plan, "", call.message, stage).result

C30_StageIndependent ==
    call.fn \in {"evaluateAndNegotiate", "finalizePlan"} =>
        \A stage \in 0..MaxStage :
            /\ C30_ResultAtStage(stage).displayType = response.displayType
            /\ C30_ResultAtStage(stage).displayData = response.displayData

C30_Witness ==
    /\ call.fn = "evaluateAndNegotiate"
    /\ call.stage = 2
    /\ currentDebtAmount # call.debtAmount
    /\ call.plan.amount < SpecMinimumPayment(call.plan.frequency, call.debtAmount)
    /\ ~ReturnedUnchanged
    /\ C30_ResultAtStage(0).displayData = response.displayData
    /\ suggestPlan(call.plan, call.debtAmount, call.userSituation, call.message, 0).result.displayData
           # suggestPlan(call.plan, call.debtAmount, call.userSituation, call.message, 2).result.displayData

=============================================================================
